---- MODULE Spec2Model ----
(***************************************************************************)
(* Verification model of the HURA_25-26 scripts:                           *)
(*   firstModel.py      - the SIR_v3 two-strata compartmental rate model   *)
(*   ATV_time-series.py - per-year cumulative proportion infected          *)
(*   region_ts.py       - per-region per-year cumulative proportion        *)
(*   AZ_posi_map.py     - UTM -> lat/long conversion of the site table     *)
(* Rates are sympy expressions in the source; they are modelled as exact   *)
(* rationals [num, den] so that sign, zero and a zero denominator are all  *)
(* observable.                                                             *)
(***************************************************************************)
EXTENDS Integers, Sequences, FiniteSets, TLC

VARIABLES
    \* firstModel.py
    sir_pc,          \* "idle", "config", "split", "run"
    total_pop,       \* n_salamanders of the site
    seed_size,       \* infected offspring init.SingleLocation puts at the site
                     \* (initial_infected at seed_location_index, 0 elsewhere)
    beta,            \* gpm:offspring::ipm::beta
    split,           \* [adult, offspring] once computed, else NoSplit
    pop              \* compartment counts of the site

VARIABLES
    \* ATV_time-series.py and region_ts.py
    script,          \* "none", "ATV_time-series" or "region_ts"
    csv,             \* the rows of SwabData_SFE_total_copynumb_region.csv
    ts_pc,           \* "idle", "start", "regions", "years", "done" or a KeyError
    frame,           \* s_samples / region_file after the preparation lines
    total_tests,     \* the dict total_tests
    region,          \* the region the outer loop of region_ts.py is at
    years_todo,      \* years the year loop still has to visit
    results,         \* the list results
    result_df        \* the data frame built from results

ts_vars == <<script, csv, ts_pc, frame, total_tests, region, years_todo,
             results, result_df>>

VARIABLES
    \* AZ_posi_map.py
    map_pc,          \* "idle", "loop" or "done"
    sites_data,      \* the rows of SiteMaster2023_region.csv
    index,           \* the row the conversion loop is at
    latitudes,       \* the list latitudes
    longitudes,      \* the list longitudes
    printed,         \* the rows an error line was printed for
    positive_sites   \* rows kept for the plot, with their row index

map_vars == <<map_pc, sites_data, index, latitudes, longitudes, printed,
              positive_sites>>

sir_vars == <<sir_pc, total_pop, seed_size, beta, split, pop>>

\* ------------------------------------------------------------------------
\* Bounds of the model
\* ------------------------------------------------------------------------
MaxPop == 4        \* largest n_salamanders of a site in the dynamic model
PopCap == 5        \* births stop once a site holds this many individuals
MaxSeed == 1       \* largest initial_infected
MaxTotal == 100    \* largest n_salamanders in the population-split model

\* ------------------------------------------------------------------------
\* Exact rational arithmetic for the rate expressions
\* ------------------------------------------------------------------------
Abs(x) == IF x < 0 THEN -x ELSE x

RECURSIVE GCD(_, _)
GCD(a, b) == IF b = 0 THEN a ELSE GCD(b, a % b)

Rat(n, d) == [num |-> n, den |-> d]

\* lowest terms, positive denominator; a zero denominator is kept as it is
Norm(r) ==
    IF r.den = 0 THEN r
    ELSE LET g == GCD(Abs(r.num), Abs(r.den))
             s == IF r.den < 0 THEN -1 ELSE 1
         IN  Rat(s * (r.num \div g), s * (r.den \div g))

RMul(a, b) == Norm(Rat(a.num * b.num, a.den * b.den))
RAdd(a, b) == Norm(Rat(a.num * b.den + b.num * a.den, a.den * b.den))
RSub(a, b) == Norm(Rat(a.num * b.den - b.num * a.den, a.den * b.den))
RInt(k) == Rat(k, 1)
RDiv(a, b) == Norm(Rat(a.num * b.den, a.den * b.num))

IsFinite(r) == r.den # 0
IsZero(r) == r.den # 0 /\ r.num = 0
IsPositive(r) == r.den # 0 /\ r.num * r.den > 0
IsNonNegative(r) == r.den # 0 /\ r.num * r.den >= 0
REq(a, b) == a.den # 0 /\ b.den # 0 /\ a.num * b.den = b.num * a.den

Max(a, b) == IF a >= b THEN a ELSE b

\* ------------------------------------------------------------------------
\* firstModel.py: population split
\* ------------------------------------------------------------------------
adult_frac == Rat(40, 100)

Floor(r) == r.num \div r.den

\* np.floor(total_pop * adult_frac).astype(int)
adult_pop(n) == Floor(RMul(RInt(n), adult_frac))

\* (total_pop - adult_pop).astype(int)
offspring_pop_bad(n) == Floor(RMul(RInt(n), RSub(RInt(1), adult_frac)))

offspring_pop(n) == n - adult_pop(n)

\* ------------------------------------------------------------------------
\* firstModel.py: parameters handed to SIR_v3().build
\* ------------------------------------------------------------------------
beta_build == Rat(30, 100)
offspring_death_rate == Rat(1, 365 * 3)
adult_death_rate == Rat(1, 365 * 3)
mature_rate == Rat(1, 60)
birth_rate == Rat(1, 120)
p_vert == Rat(60, 100)
p_chronic == Rat(30, 100)
p_disease_death == Rat(20, 100)

\* transmission rates the offspring rate function is evaluated with
Betas == {Rat(0, 1), beta_build, Rat(1, 1)}

Compartments == {"S", "I", "R_a", "R_c"}
BIRTH == "BIRTH"
DEATH == "DEATH"

edge(src, dst, r) == [src |-> src, dst |-> dst, rate |-> r]

\* N = Max(1, S + I)
N(S, I) == Max(1, S + I)

transmission_bad(b, S, I) == RDiv(RMul(b, RInt(S)), RInt(N(S, I)))

transmission(b, S, I) == RDiv(RMul(RMul(b, RInt(S)), RInt(I)), RInt(N(S, I)))

OffspringSI_edges_bad(S, I, b, mu) ==
    << edge("S", "I", transmission(b, S, I)),
       edge("S", DEATH, RMul(mu, RInt(S))),
       edge("I", DEATH, RMul(mu, RInt(S))) >>

OffspringSI_edges(S, I, b, mu) ==
    << edge("S", "I", transmission(b, S, I)),
       edge("S", DEATH, RMul(mu, RInt(S))),
       edge("I", DEATH, RMul(mu, RInt(I))) >>

AdultRaRc_edges(R_a, R_c, mu) ==
    << edge("R_a", DEATH, RMul(mu, RInt(R_a))),
       edge("R_c", DEATH, RMul(mu, RInt(R_c))) >>

N_adult_bad(R_a, R_c) == R_a + R_c

N_adult(R_a, R_c) == Max(1, R_a + R_c)

p_clear_bad == RSub(RInt(1), p_chronic)

p_clear == RSub(RSub(RInt(1), p_chronic), p_disease_death)

meta_edges_bad(S, I, R_a, R_c) ==
    << edge("I", DEATH, RMul(RMul(p_disease_death, mature_rate), RInt(I))),
       edge("I", "R_c", RMul(RMul(p_chronic, mature_rate), RInt(I))),
       edge("I", "R_a", RMul(RMul(p_clear, mature_rate), RInt(I))),
       edge(BIRTH, "S",
            RMul(RMul(RSub(p_vert, RInt(1)), birth_rate), RInt(N_adult(R_a, R_c)))),
       edge(BIRTH, "I",
            RMul(RMul(p_vert, birth_rate), RInt(N_adult(R_a, R_c)))) >>

meta_edges(S, I, R_a, R_c) ==
    << edge("I", DEATH, RMul(RMul(p_disease_death, mature_rate), RInt(I))),
       edge("I", "R_c", RMul(RMul(p_chronic, mature_rate), RInt(I))),
       edge("I", "R_a", RMul(RMul(p_clear, mature_rate), RInt(I))),
       edge(BIRTH, "S",
            RMul(RMul(RSub(RInt(1), p_vert), birth_rate), RInt(N_adult(R_a, R_c)))),
       edge(BIRTH, "I",
            RMul(RMul(p_vert, birth_rate), RInt(N_adult(R_a, R_c)))) >>

\* every transition of the assembled model, evaluated at one population state
AllEdges(p, b) ==
    OffspringSI_edges(p["S"], p["I"], b, offspring_death_rate)
      \o AdultRaRc_edges(p["R_a"], p["R_c"], adult_death_rate)
      \o meta_edges(p["S"], p["I"], p["R_a"], p["R_c"])

NoSplit == [adult |-> -1, offspring |-> -1]
NoPop == [c \in Compartments |-> 0]

SirIdle ==
    /\ sir_pc = "idle" /\ total_pop = 0 /\ seed_size = 0
    /\ beta = beta_build /\ split = NoSplit /\ pop = NoPop

\* state after the site table is loaded (lines 30-42)
SirInit(maxTotal) ==
    /\ sir_pc = "config"
    /\ total_pop \in 0..maxTotal
    /\ seed_size \in 0..MaxSeed
    /\ seed_size <= offspring_pop(total_pop)
    /\ beta \in Betas
    /\ split = NoSplit
    /\ pop = NoPop

\* adult_pop / offspring_pop (lines 44-46)
SplitPopulation ==
    /\ sir_pc = "config"
    /\ split' = [adult |-> adult_pop(total_pop),
                 offspring |-> offspring_pop(total_pop)]
    /\ sir_pc' = "split"
    /\ UNCHANGED <<total_pop, seed_size, beta, pop>>

\* SIR_v3().build with init.SingleLocation for the offspring and
\* init.NoInfection(initial_compartment="R_a") for the adults
BuildRume ==
    /\ sir_pc = "split"
    /\ pop' = [c \in Compartments |->
                  CASE c = "S"   -> split.offspring - seed_size
                    [] c = "I"   -> seed_size
                    [] c = "R_a" -> split.adult
                    [] c = "R_c" -> 0]
    /\ sir_pc' = "run"
    /\ UNCHANGED <<total_pop, seed_size, beta, split>>

PopTotal(p) == p["S"] + p["I"] + p["R_a"] + p["R_c"]

\* one individual follows edge e
ApplyEdge(p, e) ==
    [c \in Compartments |->
        p[c] - (IF e.src = c THEN 1 ELSE 0) + (IF e.dst = c THEN 1 ELSE 0)]

\* the simulator fires one event of an edge whose rate is positive
Fire ==
    /\ sir_pc = "run"
    /\ LET edges == AllEdges(pop, beta)
       IN  \E i \in 1..Len(edges) :
             /\ IsPositive(edges[i].rate)
             /\ (edges[i].src = BIRTH => PopTotal(pop) < PopCap)
             /\ pop' = ApplyEdge(pop, edges[i])
    /\ UNCHANGED <<sir_pc, total_pop, seed_size, beta, split>>

\* ------------------------------------------------------------------------
\* ATV_time-series.py and region_ts.py: the swab table
\* ------------------------------------------------------------------------
MaxRows == 3       \* most rows of the swab table
MaxDay == 3        \* collection days of the first year

BadCell == -1000   \* a cell whose text parses neither as a date nor a number
NaT == -2000       \* pandas missing date
NaN == -3000       \* pandas missing number

\* a date is year * 100 + day of the year
MkDate(y, d) == y * 100 + d
YearOf(d) == d \div 100
DayOf(d) == d % 100

TsYears == {2019, 2020, 2021}
DaysOf(y) == IF y = 2019 THEN 1..MaxDay ELSE 1..1
DateCells ==
    (UNION {{MkDate(y, d) : d \in DaysOf(y)} : y \in TsYears}) \cup {BadCell}
CTCells == {BadCell, 0, 5}

CsvRow(d, ct, ty, rg) == [collection_date |-> d, CT |-> ct, type |-> ty, region |-> rg]

\* rows the table is drawn from; region is read by region_ts.py only. Rows
\* that the first filter drops (another sample type) or that no region of
\* range(1, 5) selects come with a good and with an unparsable date
DroppedDateCells == {MkDate(2019, 1), BadCell}

RowDomain(sc) ==
    LET regs == IF sc = "region_ts" THEN {1, 2} ELSE {1}
    IN  {CsvRow(d, ct, "S", rg) : d \in DateCells, ct \in CTCells, rg \in regs}
          \cup {CsvRow(d, 5, "T", 1) : d \in DroppedDateCells}
          \cup (IF sc = "region_ts"
                THEN {CsvRow(d, 5, "S", 5) : d \in DroppedDateCells} ELSE {})

RECURSIVE SetToSeq(_)
SetToSeq(S) ==
    IF S = {} THEN <<>>
    ELSE LET x == CHOOSE y \in S : TRUE IN <<x>> \o SetToSeq(S \ {x})

AtvRows == SetToSeq(RowDomain("ATV_time-series"))
RegRows == SetToSeq(RowDomain("region_ts"))

\* the table is tbl followed by at most k rows of dom taken from index lo
\* on: one table per multiset of rows (no line of either script depends on
\* the order of the rows except through sorted(), see PySorted)
RECURSIVE ReadCsv(_, _, _, _)
ReadCsv(tbl, dom, k, lo) ==
    \/ csv = tbl
    \/ /\ k > 0
       /\ \E i \in lo..Len(dom) : ReadCsv(Append(tbl, dom[i]), dom, k - 1, i)

\* pd.to_datetime(..., errors='coerce') and pd.to_numeric(..., errors='coerce')
to_datetime(c) == IF c = BadCell THEN NaT ELSE c
to_numeric(c) == IF c = BadCell THEN NaN ELSE c

\* comparisons with a missing value are False, != is True
Gt(a, b) == a # NaN /\ b # NaN /\ a > b
Eq(a, b) == a # NaN /\ b # NaN /\ a = b
Ne(a, b) == ~Eq(a, b)

\* .dt.year
dt_year(d) == IF d = NaT THEN NaN ELSE YearOf(d)
\* d.replace(year=2020); NaT.replace returns NaT
replace_year(d, y) == IF d = NaT THEN NaT ELSE MkDate(y, DayOf(d))

\* the columns both scripts add before their loops
Prepared(row) ==
    LET d == to_datetime(row.collection_date)
        ct == to_numeric(row.CT)
    IN  [collection_date |-> d, CT |-> ct, type |-> row.type,
         region |-> row.region, is_positive |-> Gt(ct, 0),
         year |-> dt_year(d), aligned_date |-> replace_year(d, 2020)]

PrepareFrame(table) ==
    LET isS(r) == r.type = "S"
    IN  SelectSeq([j \in 1..Len(table) |-> Prepared(table[j])], isS)

CountYear(fr, y) ==
    LET inYear(r) == Eq(r.year, y) IN Len(SelectSeq(fr, inYear))

Range(seq) == {seq[j] : j \in 1..Len(seq)}

\* Series.unique(): distinct values in order of first appearance
RECURSIVE Unique(_)
Unique(seq) ==
    IF seq = <<>> THEN <<>>
    ELSE LET init == Unique(SubSeq(seq, 1, Len(seq) - 1))
             x == seq[Len(seq)]
         IN  IF x \in Range(init) THEN init ELSE Append(init, x)

RECURSIVE SortAsc(_)
SortAsc(S) ==
    IF S = {} THEN <<>>
    ELSE LET m == CHOOSE x \in S : \A y \in S : x <= y
         IN  <<m>> \o SortAsc(S \ {m})

AllOrders(S) ==
    {q \in [1..Cardinality(S) -> S] : \A a, b \in 1..Cardinality(S) : q[a] = q[b] => a = b}

\* sorted(values): ascending; every comparison with nan is False, so a list
\* holding nan comes back in an order that depends on the order it came in
\* (a list with no element smaller than its predecessor comes back unchanged)
Lt(a, b) == a # NaN /\ b # NaN /\ a < b

PySorted(seq) ==
    IF \A j \in 2..Len(seq) : ~Lt(seq[j], seq[j - 1]) THEN {seq}
    ELSE IF NaN \in Range(seq) THEN AllOrders(Range(seq))
    ELSE {SortAsc(Range(seq))}

\* sort_values('collection_date'): stable, missing dates last
RECURSIVE sort_values(_)
sort_values(fr) ==
    IF fr = <<>> THEN <<>>
    ELSE LET key(r) == IF r.collection_date = NaT THEN 99999999 ELSE r.collection_date
             m == CHOOSE j \in 1..Len(fr) :
                    \A k \in 1..Len(fr) :
                        key(fr[j]) < key(fr[k]) \/ (key(fr[j]) = key(fr[k]) /\ j <= k)
         IN  <<fr[m]>> \o sort_values(SubSeq(fr, 1, m - 1) \o SubSeq(fr, m + 1, Len(fr)))

Column(fr, name) == [j \in 1..Len(fr) |-> fr[j][name]]

\* date_data['is_positive'].sum()
date_pos_bad(date_data) == Len(date_data)

date_pos(date_data) ==
    LET pos(r) == r.is_positive IN Len(SelectSeq(date_data, pos))

\* cumulative_pos / total if total > 0 else 0
proportion(cumulative_pos, total) ==
    IF total > 0 THEN Norm(Rat(cumulative_pos, total)) ELSE Rat(0, 1)

\* sorted(year_data['collection_date'].unique()); a group has no missing date
PySortedDates(year_data) == SortAsc(Range(Column(year_data, "collection_date")))

\* the loop over the sorted dates of one group: the rows it appends
RECURSIVE DateLoop(_, _, _, _, _, _)
DateLoop(dates, year_data, cumulative_pos, total, rg, year) ==
    IF dates = <<>> THEN <<>>
    ELSE LET date == Head(dates)
             onDate(r) == Eq(r.collection_date, date)
             date_data == SelectSeq(year_data, onDate)
             cum == cumulative_pos + date_pos(date_data)
         IN  << [region |-> rg, year |-> year, date |-> date,
                 aligned_date |-> replace_year(date, 2020),
                 cumulative_total |-> total,
                 cumulative_positive |-> cum,
                 proportion_infected |-> proportion(cum, total)] >>
               \o DateLoop(Tail(dates), year_data, cum, total, rg, year)

\* body of the loop over years, for the rows fr of the group; rg is 0 in
\* ATV_time-series.py, whose result rows have no region
YearBody(fr, year, rg) ==
    LET inYear(r) == Eq(r.year, year)
        year_data == SelectSeq(fr, inYear)
    IN  DateLoop(PySortedDates(year_data), year_data, 0, total_tests[year], rg, year)

NoTotals == [y \in {} |-> 0]

TsIdle ==
    /\ script = "none" /\ csv = <<>> /\ ts_pc = "idle" /\ frame = <<>>
    /\ total_tests = NoTotals /\ region = 0 /\ years_todo = <<>>
    /\ results = <<>> /\ result_df = <<>>

\* state after pd.read_csv
TsInit ==
    /\ script \in {"ATV_time-series", "region_ts"}
    /\ ReadCsv(<<>>, IF script = "region_ts" THEN RegRows ELSE AtvRows, MaxRows, 1)
    /\ ts_pc = "start"
    /\ frame = <<>>
    /\ total_tests = NoTotals
    /\ region = 0
    /\ years_todo = <<>>
    /\ results = <<>>
    /\ result_df = <<>>

\* ATV_time-series.py lines 9-39: coercion, filter, totals, sort, year list
AtvTotalTests_bad(fr) ==
    [y \in {2019, 2020, 2021} |-> IF y = 2021 THEN 1 ELSE CountYear(fr, 2019)]

AtvTotalTests(fr) ==
    [y \in {2019, 2020, 2021} |-> IF y = 2021 THEN 1 ELSE CountYear(fr, y)]

AtvPrepare ==
    /\ script = "ATV_time-series" /\ ts_pc = "start"
    /\ LET s_samples == sort_values(PrepareFrame(csv))
       IN  /\ frame' = s_samples
           /\ total_tests' = AtvTotalTests(s_samples)
           /\ years_todo' \in PySorted(Unique(Column(s_samples, "year")))
    /\ ts_pc' = "years"
    /\ UNCHANGED <<script, csv, region, results, result_df>>

\* one iteration of the loop over years, lines 39-66
AtvYear ==
    /\ script = "ATV_time-series" /\ ts_pc = "years" /\ years_todo # <<>>
    /\ LET year == Head(years_todo)
       IN  IF year \notin DOMAIN total_tests
           THEN /\ ts_pc' = "KeyError:total_tests"
                /\ UNCHANGED <<years_todo, results>>
           ELSE /\ results' = results \o YearBody(frame, year, 0)
                /\ years_todo' = Tail(years_todo)
                /\ ts_pc' = "years"
    /\ UNCHANGED <<script, csv, frame, total_tests, region, result_df>>

\* lines 69-72: the data frame of the results, without 2021; selecting the
\* column 'year' of a frame built from no rows is a KeyError
AtvFinish ==
    /\ script = "ATV_time-series" /\ ts_pc = "years" /\ years_todo = <<>>
    /\ IF results = <<>>
       THEN ts_pc' = "KeyError:column" /\ UNCHANGED result_df
       ELSE LET not2021(r) == Ne(r.year, 2021)
            IN  result_df' = SelectSeq(results, not2021) /\ ts_pc' = "done"
    /\ UNCHANGED <<script, csv, frame, total_tests, region, years_todo, results>>

\* region_ts.py lines 11-34: coercion, filter, totals, 2021 removed
RegTotalTests(fr) == [y \in {2019, 2020} |-> CountYear(fr, y)]

RegPrepare ==
    /\ script = "region_ts" /\ ts_pc = "start"
    /\ LET region_file == PrepareFrame(csv)
           not2021(r) == Ne(r.year, 2021)
       IN  /\ total_tests' = RegTotalTests(region_file)
           /\ frame' = SelectSeq(region_file, not2021)
    /\ region' = 1
    /\ ts_pc' = "regions"
    /\ UNCHANGED <<script, csv, years_todo, results, result_df>>

RegionRows(fr, rg) == LET inRegion(r) == r.region = rg IN SelectSeq(fr, inRegion)

\* head of the loop over regions, lines 40-44
RegRegion ==
    /\ script = "region_ts" /\ ts_pc = "regions" /\ region \in 1..4
    /\ \E ys \in PySorted(Unique(Column(RegionRows(frame, region), "year"))) :
          IF ys = <<>>
          THEN region' = region + 1 /\ ts_pc' = "regions" /\ UNCHANGED years_todo
          ELSE years_todo' = ys /\ ts_pc' = "years" /\ UNCHANGED region
    /\ UNCHANGED <<script, csv, frame, total_tests, results, result_df>>

\* one iteration of the loop over the years of a region, lines 44-72
RegYear ==
    /\ script = "region_ts" /\ ts_pc = "years" /\ years_todo # <<>>
    /\ LET year == Head(years_todo)
       IN  IF year \notin DOMAIN total_tests
           THEN /\ ts_pc' = "KeyError:total_tests"
                /\ UNCHANGED <<years_todo, results, region>>
           ELSE /\ results' = results \o YearBody(RegionRows(frame, region), year, region)
                /\ years_todo' = Tail(years_todo)
                /\ IF Tail(years_todo) = <<>>
                   THEN region' = region + 1 /\ ts_pc' = "regions"
                   ELSE UNCHANGED region /\ ts_pc' = "years"
    /\ UNCHANGED <<script, csv, frame, total_tests, result_df>>

\* lines 75-95: the data frame of the results; selecting the column
\* 'region' of a frame built from no rows is a KeyError
RegFinish ==
    /\ script = "region_ts" /\ ts_pc = "regions" /\ region = 5
    /\ IF results = <<>>
       THEN ts_pc' = "KeyError:column" /\ UNCHANGED result_df
       ELSE result_df' = results /\ ts_pc' = "done"
    /\ UNCHANGED <<script, csv, frame, total_tests, region, years_todo, results>>

\* ------------------------------------------------------------------------
\* AZ_posi_map.py: UTM -> latitude / longitude
\* ------------------------------------------------------------------------
MaxSites == 2      \* most rows of the site table

ZoneMissing == <<"nan">>       \* an empty 'UTM Zone' cell (a float nan)
Digits == {"0", "1", "2", "3", "4", "5", "6", "7", "8", "9"}
DigitVal(c) ==
    CASE c = "0" -> 0 [] c = "1" -> 1 [] c = "2" -> 2 [] c = "3" -> 3
      [] c = "4" -> 4 [] c = "5" -> 5 [] c = "6" -> 6 [] c = "7" -> 7
      [] c = "8" -> 8 [] c = "9" -> 9

\* str.rstrip(c): drop every trailing c
RECURSIVE rstrip(_, _)
rstrip(str, c) ==
    IF str # <<>> /\ str[Len(str)] = c
    THEN rstrip(SubSeq(str, 1, Len(str) - 1), c)
    ELSE str

\* int(str): [raised, value]
RECURSIVE DecimalValue(_)
DecimalValue(str) ==
    IF str = <<>> THEN 0
    ELSE 10 * DecimalValue(SubSeq(str, 1, Len(str) - 1)) + DigitVal(str[Len(str)])

int(str) ==
    IF str # <<>> /\ \A j \in 1..Len(str) : str[j] \in Digits
    THEN [raised |-> FALSE, value |-> DecimalValue(str)]
    ELSE [raised |-> TRUE, value |-> 0]

\* utm.to_latlon, in units of 100 km: it raises on an easting outside
\* 1..9, a northing outside 0..100 or a zone outside 1..60
to_latlon(easting, northing, zone_number, zone_letter) ==
    IF easting \in 1..9 /\ northing \in 0..100 /\ zone_number \in 1..60
    THEN [raised |-> FALSE,
          lat |-> (IF zone_letter = "N" THEN northing ELSE northing - 10),
          long |-> 6 * zone_number - 183 + (easting - 5)]
    ELSE [raised |-> TRUE, lat |-> 0, long |-> 0]

notna(x) == x # NaN

SiteRow(e, n, z, t) == [mE |-> e, mN |-> n, UTMZone |-> z, TestResult |-> t]

Coordinates == {<<5, 40>>, <<NaN, 40>>, <<5, NaN>>, <<0, 40>>}
ZoneCells == {<<"1", "2", "S">>, <<"1", "2", "R">>, <<"1", "2">>,
              <<"1", "2", "T">>, <<"1", "2", "S", "R">>, ZoneMissing}
SiteRows == {SiteRow(c[1], c[2], z, t) : c \in Coordinates, z \in ZoneCells, t \in {0, 1}}
SiteTables == UNION {[1..k -> SiteRows] : k \in 0..MaxSites}

\* the try block of the loop body, lines 24-45:
\* [raised, lat, long]; lat = long = NaN without raising on a missing coordinate
TryBlock(row) ==
    IF notna(row.mE) /\ notna(row.mN)
    THEN IF row.UTMZone = ZoneMissing
         THEN [raised |-> TRUE, lat |-> NaN, long |-> NaN]
         ELSE LET zone_number == int(rstrip(rstrip(row.UTMZone, "S"), "R"))
                  zone_letter == IF "S" \in Range(row.UTMZone) THEN "S"
                                 ELSE IF "R" \in Range(row.UTMZone) THEN "R"
                                 ELSE "N"
                  ll == to_latlon(row.mE, row.mN, zone_number.value, zone_letter)
              IN  IF zone_number.raised \/ ll.raised
                  THEN [raised |-> TRUE, lat |-> NaN, long |-> NaN]
                  ELSE [raised |-> FALSE, lat |-> ll.lat, long |-> ll.long]
    ELSE [raised |-> FALSE, lat |-> NaN, long |-> NaN]

\* the except block, lines 46-49
ExceptBlock_bad(lats, longs) == <<Append(lats, NaN), longs>>

ExceptBlock(lats, longs) == <<Append(lats, NaN), Append(longs, NaN)>>

MapIdle ==
    /\ map_pc = "idle" /\ sites_data = <<>> /\ index = 0 /\ latitudes = <<>>
    /\ longitudes = <<>> /\ printed = {} /\ positive_sites = <<>>

\* state after pd.read_csv and the two empty lists
MapInit ==
    /\ map_pc = "loop"
    /\ sites_data \in SiteTables
    /\ index = 1
    /\ latitudes = <<>>
    /\ longitudes = <<>>
    /\ printed = {}
    /\ positive_sites = <<>>

\* one iteration of the loop over sites_data.iterrows(), lines 23-49
ConvertRow ==
    /\ map_pc = "loop" /\ index <= Len(sites_data)
    /\ LET t == TryBlock(sites_data[index])
       IN  IF t.raised
           THEN /\ printed' = printed \cup {index}
                /\ latitudes' = ExceptBlock(latitudes, longitudes)[1]
                /\ longitudes' = ExceptBlock(latitudes, longitudes)[2]
           ELSE /\ latitudes' = Append(latitudes, t.lat)
                /\ longitudes' = Append(longitudes, t.long)
                /\ UNCHANGED printed
    /\ index' = index + 1
    /\ UNCHANGED <<map_pc, sites_data, positive_sites>>

\* lines 52-57: the two columns, then the positive rows with a position;
\* assigning a list of another length than the table is a ValueError
FilterPositive ==
    /\ map_pc = "loop" /\ index > Len(sites_data)
    /\ IF Len(latitudes) # Len(sites_data) \/ Len(longitudes) # Len(sites_data)
       THEN map_pc' = "ValueError" /\ UNCHANGED positive_sites
       ELSE LET withPos == [j \in 1..Len(sites_data) |->
                              [idx |-> j, row |-> sites_data[j],
                               Latitude |-> latitudes[j], Longitude |-> longitudes[j]]]
                keep(r) == r.row.TestResult = 1 /\ notna(r.Latitude) /\ notna(r.Longitude)
            IN  positive_sites' = SelectSeq(withPos, keep) /\ map_pc' = "done"
    /\ UNCHANGED <<sites_data, index, latitudes, longitudes, printed>>

\* ------------------------------------------------------------------------
\* Specifications
\* ------------------------------------------------------------------------
vars == <<sir_vars, ts_vars, map_vars>>

\* firstModel.py: split, build, then single-individual events
Init == SirInit(MaxPop) /\ TsIdle /\ MapIdle
Next ==
    \/ SplitPopulation /\ UNCHANGED <<ts_vars, map_vars>>
    \/ BuildRume /\ UNCHANGED <<ts_vars, map_vars>>
    \/ Fire /\ UNCHANGED <<ts_vars, map_vars>>
Spec == Init /\ [][Next]_vars

\* firstModel.py: the population split alone, over larger site populations
InitSplit == SirInit(MaxTotal) /\ TsIdle /\ MapIdle
NextSplit == SplitPopulation /\ UNCHANGED <<ts_vars, map_vars>>
SpecSplit == InitSplit /\ [][NextSplit]_vars

\* ATV_time-series.py and region_ts.py
InitTS == TsInit /\ SirIdle /\ MapIdle
NextTS ==
    \/ AtvPrepare /\ UNCHANGED <<sir_vars, map_vars>>
    \/ AtvYear /\ UNCHANGED <<sir_vars, map_vars>>
    \/ AtvFinish /\ UNCHANGED <<sir_vars, map_vars>>
    \/ RegPrepare /\ UNCHANGED <<sir_vars, map_vars>>
    \/ RegRegion /\ UNCHANGED <<sir_vars, map_vars>>
    \/ RegYear /\ UNCHANGED <<sir_vars, map_vars>>
    \/ RegFinish /\ UNCHANGED <<sir_vars, map_vars>>
SpecTS == InitTS /\ [][NextTS]_vars

\* AZ_posi_map.py
InitMap == MapInit /\ SirIdle /\ TsIdle
NextMap ==
    \/ ConvertRow /\ UNCHANGED <<sir_vars, ts_vars>>
    \/ FilterPositive /\ UNCHANGED <<sir_vars, ts_vars>>
SpecMap == InitMap /\ [][NextMap]_vars

\* ------------------------------------------------------------------------
\* Properties of firstModel.py
\* ------------------------------------------------------------------------
Running == sir_pc = "run"
Edges == AllEdges(pop, beta)
Endpoints(es) == [j \in 1..Len(es) |-> <<es[j].src, es[j].dst>>]
SumRates(es, J) == LET Pick(j) == IF j \in J THEN es[j].rate ELSE Rat(0, 1)
                   IN  RAdd(RAdd(RAdd(Pick(1), Pick(2)), RAdd(Pick(3), Pick(4))), Pick(5))

\* C1: at every non-negative population state each of the ten declared
\* edges (three offspring edges, two adult death edges, five meta edges)
\* has a rate that is finite and not negative.
C1_RatesNonNegative ==
    Running /\ (\A c \in Compartments : pop[c] >= 0) =>
        /\ Endpoints(Edges) = << <<"S", "I">>, <<"S", DEATH>>, <<"I", DEATH>>,
                                 <<"R_a", DEATH>>, <<"R_c", DEATH>>,
                                 <<"I", DEATH>>, <<"I", "R_c">>, <<"I", "R_a">>,
                                 <<BIRTH, "S">>, <<BIRTH, "I">> >>
        /\ \A j \in 1..Len(Edges) : IsFinite(Edges[j].rate) /\ IsNonNegative(Edges[j].rate)

C1_Witness ==
    Running /\ (\A c \in Compartments : pop[c] >= 1) /\ beta = beta_build
      /\ \A j \in 1..Len(Edges) : IsPositive(Edges[j].rate)

\* C2: p_chronic + p_disease_death <= 1, p_clear is the residual and equals
\* 1/2 for the built values 0.30 and 0.20, the three probabilities sum to 1,
\* and the three I-maturation rates sum to mature_rate * I.
C2_BranchesSumToOne ==
    Running =>
        LET m == meta_edges(pop["S"], pop["I"], pop["R_a"], pop["R_c"])
        IN  /\ REq(p_chronic, Rat(3, 10)) /\ REq(p_disease_death, Rat(2, 10))
            /\ IsNonNegative(RSub(RInt(1), RAdd(p_chronic, p_disease_death)))
            /\ REq(p_clear, Rat(1, 2))
            /\ REq(RAdd(RAdd(p_disease_death, p_chronic), p_clear), RInt(1))
            /\ REq(SumRates(m, {1, 2, 3}), Rat(pop["I"], 60))

C2_Witness ==
    Running /\ pop["I"] >= 2
      /\ IsPositive(meta_edges(pop["S"], pop["I"], pop["R_a"], pop["R_c"])[3].rate)

\* C3: the S->I rate is exactly 0 when S = 0 or I = 0, whatever beta and
\* the other compartment are, and strictly positive when S >= 1, I >= 1 and
\* beta > 0.
C3_TransmissionZero ==
    Running =>
        LET r == OffspringSI_edges(pop["S"], pop["I"], beta, offspring_death_rate)[1].rate
        IN  /\ (pop["S"] = 0 \/ pop["I"] = 0) => IsZero(r)
            /\ (pop["S"] >= 1 /\ pop["I"] >= 1 /\ IsPositive(beta)) => IsPositive(r)

C3_Witness ==
    Running /\ pop["S"] = 0 /\ pop["I"] = 5 /\ beta = beta_build
      /\ IsZero(Edges[1].rate)

\* C4: N = max(1, S+I) is at least 1, is 1 at S = I = 0 and S+I otherwise,
\* so the transmission rate always has a non-zero denominator; N_adult is
\* floored the same way, and with no adults the two birth rates add up to
\* birth_rate * 1.
C4_FloorGuard ==
    Running /\ (\A c \in Compartments : pop[c] >= 0) =>
        /\ N(pop["S"], pop["I"]) >= 1
        /\ (pop["S"] = 0 /\ pop["I"] = 0) => N(pop["S"], pop["I"]) = 1
        /\ pop["S"] + pop["I"] >= 1 => N(pop["S"], pop["I"]) = pop["S"] + pop["I"]
        /\ IsFinite(Edges[1].rate)
        /\ N_adult(pop["R_a"], pop["R_c"]) >= 1
        /\ pop["R_a"] + pop["R_c"] >= 1 =>
               N_adult(pop["R_a"], pop["R_c"]) = pop["R_a"] + pop["R_c"]
        /\ pop["R_a"] + pop["R_c"] = 0 =>
               /\ N_adult(pop["R_a"], pop["R_c"]) = 1
               /\ REq(RAdd(Edges[9].rate, Edges[10].rate), Rat(1, 120))

C4_Witness ==
    Running /\ (\A c \in Compartments : pop[c] = 0)
      /\ IsPositive(Edges[9].rate) /\ IsZero(Edges[1].rate)

\* C5: adult_pop is floor(0.40 * total), offspring_pop is the rest, both
\* are non-negative and they add up to the total (100 gives 40 and 60).
C5_PopulationSplit ==
    sir_pc = "split" =>
        /\ 100 * split.adult <= 40 * total_pop
        /\ 40 * total_pop < 100 * (split.adult + 1)
        /\ split.offspring = total_pop - split.adult
        /\ split.adult >= 0 /\ split.offspring >= 0
        /\ split.adult + split.offspring = total_pop
        /\ total_pop = 100 => split.adult = 40 /\ split.offspring = 60

C5_Witness ==
    sir_pc = "split" /\ total_pop = 100 /\ split.adult = 40 /\ split.offspring = 60

\* C10: from non-negative initial populations every compartment stays
\* non-negative under single-individual firings of edges with a positive
\* rate; every edge out of an empty compartment has rate 0; and the only
\* edges out of R_a and R_c go to DEATH, none goes from one to the other.
C10_CompartmentsNonNegative ==
    Running =>
        /\ \A c \in Compartments : pop[c] >= 0
        /\ \A j \in 1..Len(Edges) :
              /\ (Edges[j].src \in Compartments /\ pop[Edges[j].src] = 0)
                    => IsZero(Edges[j].rate)
              /\ Edges[j].src \in {"R_a", "R_c"} => Edges[j].dst = DEATH
              /\ Edges[j].dst \in {"R_a", "R_c"} => Edges[j].src = "I"

C10_Witness ==
    Running /\ pop["S"] = 0 /\ pop["I"] = 0 /\ pop["R_a"] = 0 /\ pop["R_c"] >= 1
      /\ split.adult >= 1

\* ------------------------------------------------------------------------
\* Properties of ATV_time-series.py and region_ts.py
\* ------------------------------------------------------------------------
\* read off the file itself: a swab test with a date, and a positive one
IsTest(raw) == raw.type = "S" /\ raw.collection_date # BadCell
IsPositiveTest(raw) == IsTest(raw) /\ raw.CT # BadCell /\ raw.CT > 0
Malformed(raw) == raw.collection_date = BadCell \/ raw.CT = BadCell

\* the rows of the file that belong to the group of result row r
InGroup(raw, r) ==
    /\ IsTest(raw)
    /\ YearOf(raw.collection_date) = r.year
    /\ script = "region_ts" => raw.region = r.region

SameGroup(r1, r2) == r1.year = r2.year /\ r1.region = r2.region

TestsOfYear(y) ==
    Cardinality({k \in 1..Len(csv) : IsTest(csv[k]) /\ YearOf(csv[k].collection_date) = y})

\* C6: within a year (a region-year in region_ts.py) the result rows come
\* in increasing date order with non-decreasing cumulative_positive, and
\* each cumulative_positive is the number of positive records of the group
\* dated on or before the row's date, so every group starts from 0.
C6_CumulativeMonotone ==
    /\ \A i, j \in 1..Len(results) :
          (i < j /\ SameGroup(results[i], results[j])) =>
              /\ results[i].date < results[j].date
              /\ results[i].cumulative_positive <= results[j].cumulative_positive
    /\ \A i \in 1..Len(results) :
          results[i].cumulative_positive =
              Cardinality({k \in 1..Len(csv) :
                             /\ IsPositiveTest(csv[k])
                             /\ InGroup(csv[k], results[i])
                             /\ csv[k].collection_date <= results[i].date})

\* new positives 1, 0, 1 on three consecutive dates of one group
C6_Witness ==
    \E i \in 1..Len(results) :
        /\ i + 2 <= Len(results)
        /\ SameGroup(results[i], results[i + 1]) /\ SameGroup(results[i], results[i + 2])
        /\ results[i].cumulative_positive = 1
        /\ results[i + 1].cumulative_positive = 1
        /\ results[i + 2].cumulative_positive = 2

\* C7 as stated: proportion_infected = cumulative_positive / cumulative_total
\* (0 when cumulative_total is 0), with cumulative_total the number of
\* type-S tests of the row's year.
C7_Original ==
    \A i \in 1..Len(results) :
        LET r == results[i] IN
          /\ r.cumulative_total > 0 =>
                REq(r.proportion_infected, Rat(r.cumulative_positive, r.cumulative_total))
          /\ r.cumulative_total = 0 => IsZero(r.proportion_infected)
          /\ r.cumulative_total = TestsOfYear(r.year)

\* C7 amended: as above, but cumulative_total is the number of type-S tests
\* of the row's year only for 2019 and 2020; for the 2021 rows of
\* ATV_time-series.py it is the fixed 1 of total_tests.
C7_Proportion ==
    \A i \in 1..Len(results) :
        LET r == results[i] IN
          /\ r.cumulative_total > 0 =>
                REq(r.proportion_infected, Rat(r.cumulative_positive, r.cumulative_total))
          /\ r.cumulative_total = 0 => IsZero(r.proportion_infected)
          /\ r.year \in {2019, 2020} => r.cumulative_total = TestsOfYear(r.year)
          /\ r.year = 2021 => r.cumulative_total = 1

C7_Witness ==
    \E i, j \in 1..Len(results) :
        /\ results[i].year = 2021 /\ results[i].cumulative_positive = 2
        /\ REq(results[i].proportion_infected, Rat(2, 1))
        /\ results[j].year = 2019 /\ results[j].cumulative_total = 1
        /\ REq(results[j].proportion_infected, Rat(1, 1))

\* C8 as stated: a record with an unparsable collection_date or CT does not
\* stop the script in the loops, and once the script is through, the record
\* is in no year's total and on no result row.
C8_Original ==
    \A k \in 1..Len(csv) :
        Malformed(csv[k]) =>
            /\ ts_pc # "KeyError:total_tests"
            /\ ts_pc = "done" =>
                  /\ \A y \in {2019, 2020} :
                        total_tests[y] =
                            Cardinality({n \in 1..Len(csv) :
                                           /\ IsTest(csv[n]) /\ ~Malformed(csv[n])
                                           /\ YearOf(csv[n].collection_date) = y})
                  /\ \A i \in 1..Len(results) :
                        \E n \in 1..Len(csv) :
                            /\ ~Malformed(csv[n])
                            /\ InGroup(csv[n], results[i])
                            /\ csv[n].collection_date = results[i].date

\* ------------------------------------------------------------------------
\* Properties of AZ_posi_map.py
\* ------------------------------------------------------------------------
\* read off the table itself: rows whose position cannot be converted
BadZones == {ZoneMissing, <<"1", "2", "T">>, <<"1", "2", "S", "R">>}
Unconvertible(row) ==
    \/ row.mE = NaN \/ row.mN = NaN
    \/ row.UTMZone \in BadZones
    \/ row.mE \notin 1..9
Plotted == {positive_sites[j].idx : j \in 1..Len(positive_sites)}

\* C9: a row whose conversion fails does not abort the run; after the loop
\* both lists hold one entry per row in row order, the failing row's entry
\* is missing in both and the row is not plotted, and every other row has
\* its own converted position and is plotted when its test result is 1.
C9_PerRowFailure ==
    /\ map_pc # "ValueError"
    /\ Len(latitudes) = index - 1 /\ Len(longitudes) = index - 1
    /\ map_pc = "done" =>
          /\ Len(latitudes) = Len(sites_data) /\ Len(longitudes) = Len(sites_data)
          /\ \A j \in 1..Len(sites_data) :
                LET row == sites_data[j] IN
                  IF Unconvertible(row)
                  THEN latitudes[j] = NaN /\ longitudes[j] = NaN /\ j \notin Plotted
                  ELSE /\ latitudes[j] = (IF row.UTMZone = <<"1", "2">> THEN 40 ELSE 30)
                       /\ longitudes[j] = 6 * 12 - 183
                       /\ (j \in Plotted <=> row.TestResult = 1)

C9_Witness ==
    /\ map_pc = "done" /\ Len(sites_data) = 2
    /\ sites_data[1] = SiteRow(5, 40, <<"1", "2", "T">>, 1)
    /\ sites_data[2] = SiteRow(5, 40, <<"1", "2", "S">>, 1)
    /\ printed = {1} /\ latitudes = <<NaN, 30>> /\ Plotted = {2}

====
